---- MODULE Spec2Model ----
(***************************************************************************)
(* Model of src/main.py: the adjacency statistics of TiledImageGenerator   *)
(* (_compute_counts), the constraint intersector (coupled_markov_chain),   *)
(* the sampler (wavefunction) and the two generation drivers (generate,    *)
(* generate_2), together with the part of TiledImageProcessor that         *)
(* produces the training mapping and that decides which cells of a         *)
(* generated mapping are rendered.                                         *)
(*                                                                         *)
(* Python dictionaries are functions whose DOMAIN is the key set; the      *)
(* 'info' entry of a mapping is the field info and the tuple-keyed         *)
(* entries are the field cells.  Python lists are sequences; a python      *)
(* index i is the sequence index i + 1.  A tile picture (a cropped image)  *)
(* is a number, equal numbers meaning equal pixel content.                 *)
(***************************************************************************)
EXTENDS Integers, Sequences, FiniteSets, TLC

\* Bounds of the model.
MaxTiles == 3        \* distinct tile pictures of the training image
MaxCells == 4        \* cells (col * row) of the training image
MaxRow == 2          \* largest row argument of generate
MaxCol == 2          \* largest col argument of generate
MaxConstraints == 2  \* longest list handed to coupled_markov_chain directly

VARIABLES
    mapping,      \* self.mapping of the generator: [info, cells]
    n,            \* self.n
    counts,       \* self.counts
    pc,           \* "idle", "generate", "generate_2b", "generate_2c", "done"
    op,           \* the method called: "none", "generate", "generate_2", "coupled_markov_chain"
    row, col,     \* the arguments of generate (2, 2 in generate_2)
    tile,         \* the seed tile drawn, -1 while none is drawn
    gen_mapping,  \* the local mapping under construction
    idx,          \* python index of the scan into product(range(row), range(col))
    visit,        \* the last cell the scan resolved and the cells its constraints were read from
    cmc,          \* the last call of coupled_markov_chain / wavefunction
    exc,          \* the exception that ended the call, "none" if none
    returned      \* TRUE once the called method has returned its value

vars == <<mapping, n, counts, pc, op, row, col, tile, gen_mapping, idx, visit, cmc, exc, returned>>

--------------------------------------------------------------------------
\* Python helpers.

\* range(k) as a list
range(k) == [i \in 1..k |-> i - 1]

\* itertools.product(a, b) as a list: the first list is the outer loop
product(a, b) ==
    [i \in 1..(Len(a) * Len(b)) |->
        <<a[((i - 1) \div Len(b)) + 1], b[((i - 1) % Len(b)) + 1]>>]

zip(a, b) ==
    [i \in 1..(IF Len(a) < Len(b) THEN Len(a) ELSE Len(b)) |-> <<a[i], b[i]>>]

SeqToSet(s) == {s[i] : i \in DOMAIN s}

\* d extended (or overwritten) at key k, as d[k] = v does
DictSet(d, k, v) == [x \in (DOMAIN d) \cup {k} |-> IF x = k THEN v ELSE d[x]]

EmptyDict == [x \in {} |-> 0]

--------------------------------------------------------------------------
\* TiledImageProcessor

RECURSIVE dedupe(_, _, _)
dedupe(img, ps, tiles) ==
    IF ps = <<>> THEN tiles
    ELSE LET crop == img[Head(ps)]
         IN IF crop \in SeqToSet(tiles)
            THEN dedupe(img, Tail(ps), tiles)
            ELSE dedupe(img, Tail(ps), Append(tiles, crop))

\* _image_to_tiles: the distinct tiles in order of first occurrence
image_to_tiles(img, icol, irow) == dedupe(img, product(range(icol), range(irow)), <<>>)

\* tile_id: index of the tile in tile_list
tile_id(tile_list, t) == (CHOOSE i \in DOMAIN tile_list : tile_list[i] = t) - 1

\* mapping(): position -> tile id, with the shape under 'info'
processor_mapping(img, icol, irow) ==
    LET tile_list == image_to_tiles(img, icol, irow)
    IN [info |-> [row |-> irow, col |-> icol],
        cells |-> [p \in SeqToSet(product(range(icol), range(irow))) |-> tile_id(tile_list, img[p])]]

\* mapping_to_image: the cells of the mapping that are pasted into the image
mapping_to_image(m) ==
    {p \in SeqToSet(product(range(m.info.col), range(m.info.row))) : p \in DOMAIN m.cells}

--------------------------------------------------------------------------
\* TiledImageGenerator

adjacent_neighbors == <<(<<1, 0>>), (<<0, -1>>), (<<-1, 0>>), (<<0, 1>>)>>
diagonal_neighbors == <<(<<1, -1>>), (<<-1, -1>>), (<<-1, 1>>), (<<1, 1>>)>>

tuple_sum(a, b) == <<a[1] + b[1], a[2] + b[2]>>

\* enumerate(self.adjacent_neighbors + self.diagonal_neighbors)[i]
neighbor_offset(i) == (adjacent_neighbors \o diagonal_neighbors)[i + 1]

\* _compute_counts: counts[tile][i] is a Counter, a function from the tiles
\* seen at offset i of a cell holding tile to the number of such cells
compute_counts(m, nn) ==
    LET width == m.info.col
        height == m.info.row
        cells == SeqToSet(product(range(width), range(height)))
        seen(t, i) == {p \in cells : m.cells[p] = t
                                     /\ tuple_sum(neighbor_offset(i), p) \in DOMAIN m.cells}
        nb(i, p) == m.cells[tuple_sum(neighbor_offset(i), p)]
    IN [t \in 0..(nn - 1) |->
          [i \in 0..7 |->
             [k \in {nb(i, p) : p \in seen(t, i)} |->
                 Cardinality({p \in seen(t, i) : nb(i, p) = k})]]]

\* numpy dirichlet(frequencies): a probability vector; every entry of a
\* vector drawn for positive concentrations is positive.  TRUE = positive.
dirichlet(frequencies) == [t \in DOMAIN frequencies |-> frequencies[t] > 0]

\* numpy choice(ids, p = d): the ids that can be drawn
choice(ids, d) == {t \in ids : d[t]}

Outcome(kind, value, frequencies) ==
    [kind |-> kind, value |-> value, frequencies |-> frequencies]

\* wavefunction(tile, neighbor_id): the possible outcomes.  With no key,
\* choice raises ValueError ('a' cannot be empty).
wavefunction(t, neighbor_id) ==
    LET frequencies == counts[t][neighbor_id]
        ids == DOMAIN frequencies
    IN IF ids = {} THEN {Outcome("ValueError", -1, frequencies)}
       ELSE {Outcome("return", v, frequencies) : v \in choice(ids, dirichlet(frequencies))}

\* the local list counts of coupled_markov_chain
counts_list(tiles, neighbors) ==
    LET z == zip(tiles, neighbors)
    IN [i \in DOMAIN z |-> counts[z[i][1]][z[i][2]]]

valid_tiles_first_only(cs) == DOMAIN cs[1]

\* valid_tiles after the intersection_update loop
valid_tiles(cs) == {t \in DOMAIN cs[1] : \A i \in DOMAIN cs : t \in DOMAIN cs[i]}

RECURSIVE accumulate(_, _, _)
accumulate(cs, t, i) ==
    IF i = 0 THEN 0
    ELSE accumulate(cs, t, i - 1) + (IF t \in DOMAIN cs[i] THEN cs[i][t] ELSE 0)

valid_tile_counts_presence(cs) == [t \in valid_tiles(cs) |-> Len(cs)]

\* valid_tile_counts after the accumulation loop
valid_tile_counts(cs) == [t \in valid_tiles(cs) |-> accumulate(cs, t, Len(cs))]

coupled_markov_chain_fallback(tiles, neighbors) ==
    LET cs == counts_list(tiles, neighbors)
    IN IF Len(cs) = 0 THEN {Outcome("IndexError", -1, EmptyDict)}
       ELSE LET frequencies == valid_tile_counts(cs)
                ids == DOMAIN frequencies
            IN IF frequencies = EmptyDict
               THEN {Outcome("return", v, frequencies) : v \in 0..(n - 1)}
               ELSE {Outcome("return", v, frequencies) :
                        v \in choice(ids, dirichlet(frequencies))}

\* coupled_markov_chain(tiles, neighbors): the possible outcomes.  counts[0]
\* of an empty list raises IndexError; the assert raises AssertionError.
coupled_markov_chain(tiles, neighbors) ==
    LET cs == counts_list(tiles, neighbors)
    IN IF Len(cs) = 0 THEN {Outcome("IndexError", -1, EmptyDict)}
       ELSE LET frequencies == valid_tile_counts(cs)
                ids == DOMAIN frequencies
            IN IF frequencies = EmptyDict
               THEN {Outcome("AssertionError", -1, frequencies)}
               ELSE {Outcome("return", v, frequencies) :
                        v \in choice(ids, dirichlet(frequencies))}

inverse_neighbor_identity(nb) ==
    CASE nb = <<1, 0>> -> 0
      [] nb = <<0, -1>> -> 1
      [] nb = <<-1, 0>> -> 2
      [] nb = <<0, 1>> -> 3

\* inverse_neighbor of generate
inverse_neighbor(nb) ==
    CASE nb = <<1, 0>> -> 2
      [] nb = <<0, -1>> -> 3
      [] nb = <<-1, 0>> -> 0
      [] nb = <<0, 1>> -> 1

\* the inner loop of generate over self.adjacent_neighbors at cell hk
gather(m, hk) ==
    LET present == SelectSeq(<<1, 2, 3, 4>>,
                       LAMBDA i : tuple_sum(hk, adjacent_neighbors[i]) \in DOMAIN m.cells)
    IN [neighbor_tiles |-> [j \in DOMAIN present |->
                               m.cells[tuple_sum(hk, adjacent_neighbors[present[j]])]],
        positions |-> [j \in DOMAIN present |-> inverse_neighbor(adjacent_neighbors[present[j]])],
        from |-> [j \in DOMAIN present |-> tuple_sum(hk, adjacent_neighbors[present[j]])]]

CallRecord(name, tiles, neighbors, o) ==
    [called |-> name, tiles |-> tiles, neighbors |-> neighbors,
     frequencies |-> o.frequencies, kind |-> o.kind, value |-> o.value]

NoCall == [called |-> "none", tiles |-> <<>>, neighbors |-> <<>>,
           frequencies |-> EmptyDict, kind |-> "none", value |-> -1]

NoVisit == [cell |-> <<>>, from |-> <<>>]

--------------------------------------------------------------------------
\* The state after  bar = TiledImageGenerator(foo.mapping(), foo.n)

Init ==
    /\ \E icol \in 1..MaxCells, irow \in 1..MaxCells :
         /\ icol * irow <= MaxCells
         /\ \E img \in [SeqToSet(product(range(icol), range(irow))) -> 1..MaxTiles] :
              /\ mapping = processor_mapping(img, icol, irow)
              /\ n = Len(image_to_tiles(img, icol, irow))
              /\ counts = compute_counts(processor_mapping(img, icol, irow),
                                         Len(image_to_tiles(img, icol, irow)))
    /\ pc = "idle"
    /\ op = "none"
    /\ row = 0
    /\ col = 0
    /\ tile = -1
    /\ gen_mapping = [info |-> [row |-> 0, col |-> 0], cells |-> EmptyDict]
    /\ idx = 0
    /\ visit = NoVisit
    /\ cmc = NoCall
    /\ exc = "none"
    /\ returned = FALSE

\* generate(row, col) up to the scan: the seed is drawn and placed at (0, 0)
Generate ==
    /\ pc = "idle"
    /\ \E r \in 0..MaxRow, c \in 0..MaxCol, t \in 0..(n - 1) :
         /\ row' = r
         /\ col' = c
         /\ tile' = t
         /\ gen_mapping' = [info |-> [row |-> r, col |-> c],
                            cells |-> DictSet(EmptyDict, <<0, 0>>, t)]
    /\ op' = "generate"
    /\ idx' = 0
    /\ pc' = "generate"
    /\ UNCHANGED <<mapping, n, counts, visit, cmc, exc, returned>>

scan_exclusive == product(range(row - 1), range(col))

\* the cells the for loop of generate visits, in order
scan == product(range(row), range(col))

\* one iteration of the scan at a cell already in the mapping
GenerateSkip ==
    /\ pc = "generate"
    /\ idx < Len(scan)
    /\ scan[idx + 1] \in DOMAIN gen_mapping.cells
    /\ idx' = idx + 1
    /\ UNCHANGED <<mapping, n, counts, pc, op, row, col, tile, gen_mapping, visit, cmc, exc,
                   returned>>

\* one iteration of the scan at an empty cell: gather, resolve, place
GenerateVisit ==
    /\ pc = "generate"
    /\ idx < Len(scan)
    /\ scan[idx + 1] \notin DOMAIN gen_mapping.cells
    /\ LET hk == scan[idx + 1]
           g == gather(gen_mapping, hk)
       IN /\ visit' = [cell |-> hk, from |-> g.from]
          /\ \E o \in coupled_markov_chain(g.neighbor_tiles, g.positions) :
               /\ cmc' = CallRecord("coupled_markov_chain", g.neighbor_tiles, g.positions, o)
               /\ IF o.kind = "return"
                  THEN /\ gen_mapping' = [gen_mapping EXCEPT
                                             !.cells = DictSet(gen_mapping.cells, hk, o.value)]
                       /\ idx' = idx + 1
                       /\ UNCHANGED <<pc, exc>>
                  ELSE /\ exc' = o.kind
                       /\ pc' = "done"
                       /\ UNCHANGED <<gen_mapping, idx>>
    /\ UNCHANGED <<mapping, n, counts, op, row, col, tile, returned>>

GenerateReturnInLoop ==
    /\ pc = "generate"
    /\ idx >= 1
    /\ returned' = TRUE
    /\ pc' = "done"
    /\ UNCHANGED <<mapping, n, counts, op, row, col, tile, gen_mapping, idx, visit, cmc, exc>>

\* return mapping
GenerateReturn ==
    /\ pc = "generate"
    /\ idx = Len(scan)
    /\ returned' = TRUE
    /\ pc' = "done"
    /\ UNCHANGED <<mapping, n, counts, op, row, col, tile, gen_mapping, idx, visit, cmc, exc>>

\* generate_2 up to the diagonal cell: the seed at (0, 0), then (1, 1) by
\* wavefunction(tile, 7)
Generate2 ==
    /\ pc = "idle"
    /\ op' = "generate_2"
    /\ row' = 2
    /\ col' = 2
    /\ \E t \in 0..(n - 1) :
         /\ tile' = t
         /\ \E o \in wavefunction(t, 7) :
              /\ cmc' = CallRecord("wavefunction", <<t>>, <<7>>, o)
              /\ IF o.kind = "return"
                 THEN /\ gen_mapping' =
                           [info |-> [row |-> 2, col |-> 2],
                            cells |-> DictSet(DictSet(EmptyDict, <<0, 0>>, t), <<1, 1>>, o.value)]
                      /\ pc' = "generate_2b"
                      /\ UNCHANGED exc
                 ELSE /\ gen_mapping' = [info |-> [row |-> 2, col |-> 2],
                                         cells |-> DictSet(EmptyDict, <<0, 0>>, t)]
                      /\ exc' = o.kind
                      /\ pc' = "done"
    /\ UNCHANGED <<mapping, n, counts, idx, visit, returned>>

\* the positions lists of generate_2 for the cells (1, 0) and (0, 1)
positions_1_0 == <<2, 3>>
positions_0_1 == <<1, 0>>

\* generate_2: mapping[(1, 0)] = coupled_markov_chain(tiles, [2, 3])
Generate2Cell10 ==
    /\ pc = "generate_2b"
    /\ LET tiles == <<tile, gen_mapping.cells[<<1, 1>>]>>
       IN \E o \in coupled_markov_chain(tiles, positions_1_0) :
            /\ cmc' = CallRecord("coupled_markov_chain", tiles, positions_1_0, o)
            /\ IF o.kind = "return"
               THEN /\ gen_mapping' = [gen_mapping EXCEPT
                                          !.cells = DictSet(gen_mapping.cells, <<1, 0>>, o.value)]
                    /\ pc' = "generate_2c"
                    /\ UNCHANGED exc
               ELSE /\ exc' = o.kind
                    /\ pc' = "done"
                    /\ UNCHANGED gen_mapping
    /\ UNCHANGED <<mapping, n, counts, op, row, col, tile, idx, visit, returned>>

\* generate_2: mapping[(0, 1)] = coupled_markov_chain(tiles, [1, 0]); return mapping
Generate2Cell01 ==
    /\ pc = "generate_2c"
    /\ LET tiles == <<tile, gen_mapping.cells[<<1, 1>>]>>
       IN \E o \in coupled_markov_chain(tiles, positions_0_1) :
            /\ cmc' = CallRecord("coupled_markov_chain", tiles, positions_0_1, o)
            /\ IF o.kind = "return"
               THEN /\ gen_mapping' = [gen_mapping EXCEPT
                                          !.cells = DictSet(gen_mapping.cells, <<0, 1>>, o.value)]
                    /\ returned' = TRUE
                    /\ UNCHANGED exc
               ELSE /\ exc' = o.kind
                    /\ UNCHANGED <<gen_mapping, returned>>
    /\ pc' = "done"
    /\ UNCHANGED <<mapping, n, counts, op, row, col, tile, idx, visit>>

Next ==
    \/ Generate
    \/ GenerateSkip
    \/ GenerateVisit
    \/ GenerateReturn
    \/ Generate2
    \/ Generate2Cell10
    \/ Generate2Cell01

Spec == Init /\ [][Next]_vars

\* a direct call coupled_markov_chain(tiles, neighbors) on the built model
CallCoupledMarkovChain ==
    /\ pc = "idle"
    /\ \E len \in 0..MaxConstraints :
         \E tiles \in [1..len -> 0..(n - 1)], neighbors \in [1..len -> 0..7] :
            \E o \in coupled_markov_chain(tiles, neighbors) :
               /\ cmc' = CallRecord("coupled_markov_chain", tiles, neighbors, o)
               /\ exc' = (IF o.kind = "return" THEN "none" ELSE o.kind)
               /\ returned' = (o.kind = "return")
    /\ op' = "coupled_markov_chain"
    /\ pc' = "done"
    /\ UNCHANGED <<mapping, n, counts, row, col, tile, gen_mapping, idx, visit>>

NextCmc == CallCoupledMarkovChain

CmcSpec == Init /\ [][NextCmc]_vars

--------------------------------------------------------------------------
\* Properties.

\* the cells (h, k) of generate's target shape, h over range(row), k over range(col)
TargetCells == {<<h, k>> : h \in 0..(row - 1), k \in 0..(col - 1)}

KeysOf(i) == DOMAIN counts[cmc.tiles[i]][cmc.neighbors[i]]

\* the tile ids that are a key of every constraint of the last call
SharedKeys == {t \in 0..(n - 1) : \A i \in DOMAIN cmc.tiles : t \in KeysOf(i)}

RECURSIVE SumOfCounts(_, _)
SumOfCounts(t, i) ==
    IF i = 0 THEN 0 ELSE SumOfCounts(t, i - 1) + counts[cmc.tiles[i]][cmc.neighbors[i]][t]

\* C1: whenever generate(r, c) with r >= 1 and c >= 1 returns, the grid
\* declares the shape (row = r, col = c) and holds exactly r * c position
\* entries, each mapped to a tile id in [0, n).
C1_ShapePreservation ==
    (op = "generate" /\ returned /\ row >= 1 /\ col >= 1) =>
        /\ gen_mapping.info = [row |-> row, col |-> col]
        /\ Cardinality(DOMAIN gen_mapping.cells) = row * col
        /\ \A p \in DOMAIN gen_mapping.cells : gen_mapping.cells[p] \in 0..(n - 1)

C1_Witness ==
    /\ op = "generate" /\ returned /\ row = 2 /\ col = 2
    /\ Cardinality(DOMAIN gen_mapping.cells) = 4

C3_EmptyIntersectionFails ==
    (cmc.called = "coupled_markov_chain" /\ Len(cmc.tiles) >= 1 /\ SharedKeys = {}) =>
        /\ cmc.kind = "AssertionError"
        /\ cmc.value = -1
        /\ ~returned

\* two constraints with non-empty, disjoint key sets
C3_Witness ==
    /\ op = "coupled_markov_chain" /\ Len(cmc.tiles) = 2
    /\ KeysOf(1) # {} /\ KeysOf(2) # {}
    /\ KeysOf(1) \cap KeysOf(2) = {}
    /\ cmc.kind = "AssertionError"

\* C4: whenever coupled_markov_chain returns a tile id, the id is a key of
\* every constraint's distribution, the candidates are exactly the shared
\* keys, the weight of each candidate is the sum of its counts over all
\* constraints, and when exactly one key is shared that key is returned.
C4_ReturnsSharedKey ==
    (cmc.called = "coupled_markov_chain" /\ cmc.kind = "return") =>
        /\ \A i \in DOMAIN cmc.tiles : cmc.value \in KeysOf(i)
        /\ DOMAIN cmc.frequencies = SharedKeys
        /\ \A t \in SharedKeys : cmc.frequencies[t] = SumOfCounts(t, Len(cmc.tiles))
        /\ \A k \in SharedKeys : SharedKeys = {k} => cmc.value = k

\* two constraints sharing exactly one key, one of them with a further key
C4_Witness ==
    /\ op = "coupled_markov_chain" /\ cmc.kind = "return" /\ Len(cmc.tiles) = 2
    /\ SharedKeys = {cmc.value}
    /\ Cardinality(KeysOf(1) \cup KeysOf(2)) >= 2
    /\ cmc.frequencies[cmc.value] >= 2

\* the training grid A B / A B (A = 0, B = 1): column 0 holds A, column 1 holds B
ABGrid ==
    [info |-> [row |-> 2, col |-> 2],
     cells |-> [p \in {<<0, 0>>, <<1, 0>>, <<0, 1>>, <<1, 1>>} |-> p[1]]]

ABRun == mapping = ABGrid /\ n = 2 /\ op = "generate" /\ row = 2 /\ col = 2

\* each column holds a single tile and the two columns hold different tiles
ColumnPattern ==
    /\ DOMAIN gen_mapping.cells = {<<0, 0>>, <<1, 0>>, <<0, 1>>, <<1, 1>>}
    /\ gen_mapping.cells[<<0, 0>>] = gen_mapping.cells[<<0, 1>>]
    /\ gen_mapping.cells[<<1, 0>>] = gen_mapping.cells[<<1, 1>>]
    /\ gen_mapping.cells[<<0, 0>>] # gen_mapping.cells[<<1, 0>>]

\* C5 as stated: on the A B / A B model every run of generate(2, 2), for
\* either seed tile, completes and returns the column pattern.
C5_EverySeedCompletes ==
    (ABRun /\ pc = "done") => (returned /\ ColumnPattern)

\* C5 as amended: on the A B / A B model a run of generate(2, 2) seeded with
\* A completes and returns the column pattern (A, A in column 0 and B, B in
\* column 1); a run seeded with B raises the contradiction and returns no grid.
C5_SeedACompletes ==
    (ABRun /\ pc = "done") =>
        /\ tile = 0 => (returned /\ ColumnPattern /\ gen_mapping.cells[<<0, 0>>] = 0)
        /\ tile = 1 => (~returned /\ exc = "AssertionError")

C5_Witness == ABRun /\ pc = "done" /\ tile = 0 /\ returned /\ ColumnPattern

\* C6 as stated: every position key (x, y) of the grid returned by
\* generate(r, c), r >= 1, c >= 1, satisfies 0 <= x < c and 0 <= y < r, and
\* the key set is the set of cells mapping_to_image pastes.
C6_KeysAreColumnRow ==
    (op = "generate" /\ returned /\ row >= 1 /\ col >= 1) =>
        /\ \A p \in DOMAIN gen_mapping.cells :
              0 <= p[1] /\ p[1] < col /\ 0 <= p[2] /\ p[2] < row
        /\ DOMAIN gen_mapping.cells = mapping_to_image(gen_mapping)

\* C7 as stated: generate(row, col) with row = 0 or col = 0 draws no seed
\* tile, places no cell and returns no grid.
C7_ZeroShapeRejected ==
    (op = "generate" /\ (row = 0 \/ col = 0)) =>
        /\ tile = -1
        /\ DOMAIN gen_mapping.cells = {}
        /\ ~returned

\* C8: in generate(r, c) with r >= 1 and c >= 1, every cell the scan resolves
\* has at least one orthogonal neighbour already placed, so the constraint
\* list is never empty; and each constraint pairs the tile of a placed
\* orthogonal neighbour with the direction index whose offset leads from
\* that neighbour to the resolved cell.
C8_ScanHasPlacedNeighbour ==
    (op = "generate" /\ row >= 1 /\ col >= 1 /\ visit # NoVisit) =>
        /\ cmc.called = "coupled_markov_chain"
        /\ Len(cmc.tiles) >= 1
        /\ Len(cmc.tiles) = Len(visit.from)
        /\ Len(cmc.neighbors) = Len(visit.from)
        /\ cmc.kind # "IndexError"
        /\ \A i \in DOMAIN visit.from :
              /\ visit.from[i] \in DOMAIN gen_mapping.cells
              /\ visit.from[i] # visit.cell
              /\ cmc.tiles[i] = gen_mapping.cells[visit.from[i]]
              /\ cmc.neighbors[i] \in 0..3
              /\ tuple_sum(visit.from[i], neighbor_offset(cmc.neighbors[i])) = visit.cell

\* a cell resolved from two placed neighbours
C8_Witness ==
    /\ op = "generate" /\ visit # NoVisit /\ Len(visit.from) = 2
    /\ cmc.kind = "return"
    /\ visit.cell \in DOMAIN gen_mapping.cells

\* C9 as stated: in generate_2 the tile placed at (1, 0) is a key of the
\* seed's direction-0 (right) distribution and of the diagonal tile's
\* direction-1 (up) distribution, and the tile placed at (0, 1) is a key of
\* the seed's direction-3 (down) distribution and of the diagonal tile's
\* direction-2 (left) distribution.
C9_Generate2Directions ==
    (op = "generate_2" /\ <<1, 1>> \in DOMAIN gen_mapping.cells) =>
        LET c == gen_mapping.cells
            s == c[<<1, 1>>]
        IN /\ <<1, 0>> \in DOMAIN c =>
                 (c[<<1, 0>>] \in DOMAIN counts[tile][0] /\ c[<<1, 0>>] \in DOMAIN counts[s][1])
           /\ <<0, 1>> \in DOMAIN c =>
                 (c[<<0, 1>>] \in DOMAIN counts[tile][3] /\ c[<<0, 1>>] \in DOMAIN counts[s][2])

\* C10: in every grid returned by generate, for cells p and p + offset_d
\* (d in 0..3) holding tiles a and b, counts[a][d][b] >= 1.
C10_AdjacentPairsObserved ==
    (op = "generate" /\ returned) =>
        \A p \in DOMAIN gen_mapping.cells : \A d \in 0..3 :
            LET q == tuple_sum(p, neighbor_offset(d))
                a == gen_mapping.cells[p]
            IN q \in DOMAIN gen_mapping.cells =>
                  /\ gen_mapping.cells[q] \in DOMAIN counts[a][d]
                  /\ counts[a][d][gen_mapping.cells[q]] >= 1

\* a returned 2 x 2 grid holding more than one tile
C10_Witness ==
    /\ op = "generate" /\ returned /\ row = 2 /\ col = 2
    /\ Cardinality({gen_mapping.cells[p] : p \in DOMAIN gen_mapping.cells}) >= 2

====
